---- MODULE Spec2Model ----
(***************************************************************************)
(* Model of the Azure DevOps board plugin (src/main.ts).                   *)
(*                                                                         *)
(* One run of updateCurrentSprintBoard is a chain of asynchronous steps;   *)
(* every `await` of the function is a point where other callbacks may run, *)
(* and every promise that the function does NOT await (createFolder at     *)
(* line 128, vault.delete at line 163, vault.create at line 173) stays in  *)
(* flight after the function has moved on.  The vault is the state that    *)
(* those operations act on.                                                *)
(*                                                                         *)
(* Strings are sequences of one-character strings, so that the substring   *)
(* test of getFilenameByTaskId and the path arithmetic are computed, not   *)
(* assumed.                                                                *)
(*                                                                         *)
(* The vault is the host's: vault.create rejects when something is at the  *)
(* path or the folder of the path is missing, and writes otherwise;        *)
(* vault.delete removes the file (a folder with all it holds);             *)
(* createFolder makes the folder.  Each takes effect when its promise      *)
(* settles, which is any time after the call: un-awaited operations race.  *)
(* Disk failures other than these are not modelled.  A run is triggered    *)
(* when the previous one and its operations have settled (runs in          *)
(* succession), and the remote service changes between runs only.          *)
(***************************************************************************)
EXTENDS Integers, Sequences, FiniteSets, TLC

VARIABLES
    targetFolder,   \* settings.targetFolder
    remote,         \* what the remote service currently holds: iteration and work items
    files,          \* vault.getMarkdownFiles(): sequence of [path, content], in index order
    folders,        \* folder paths that exist in the vault
    pc,             \* position of the run of updateCurrentSprintBoard
    iterationResponse, \* response of the GET of line 83
    run,            \* locals and observable effects of the current (or last) run
    pendingNotes,   \* vault.create promises of createTaskNote that have not settled
    pendingFolder,  \* createFolder promise of createFolders that has not settled (<<>> or <<path>>)
    pendingDelete,  \* vault.delete promise of createKanbanBoard that has not settled
    pendingBoard,   \* vault.create promise of createKanbanBoard that has not settled
    prev,           \* summary of the run before the current one, taken when it had settled
    runs            \* number of runs triggered so far

vars == <<targetFolder, remote, files, folders, pc, iterationResponse, run,
          pendingNotes, pendingFolder, pendingDelete, pendingBoard, prev, runs>>

(***************************************************************************)
(* Bounds of the model.                                                    *)
(***************************************************************************)
MaxRuns == 3

(***************************************************************************)
(* Program constants.                                                      *)
(***************************************************************************)
COLUMN_PENDING == <<"P","e","n","d","i","n","g">>
COLUMN_IN_PROGRESS == <<"I","n"," ","P","r","o","g","r","e","s","s">>
COLUMN_IN_MERGE == <<"I","n"," ","M","e","r","g","e">>
COLUMN_IN_VERIFICATION == <<"I","n"," ","V","e","r","i","f","i","c","a","t","i","o","n">>
COLUMN_CLOSED == <<"C","l","o","s","e","d">>

Columns == {COLUMN_PENDING, COLUMN_IN_PROGRESS, COLUMN_IN_MERGE,
            COLUMN_IN_VERIFICATION, COLUMN_CLOSED}

StatusOK == 200

\* the texts of the two Notices (lines 118 and 123)
SuccessNotice == "Updated all Kanban boards successfully!"
ErrorNotice == "Error occured, see console logs for details."

(***************************************************************************)
(* String helpers (JavaScript String methods used by the code).            *)
(***************************************************************************)
\* String.prototype.contains(sub)
Contains(s, sub) ==
    \E i \in 0..(Len(s) - Len(sub)) : SubSeq(s, i + 1, i + Len(sub)) = sub

Digit(d) ==
    CASE d = 0 -> "0" [] d = 1 -> "1" [] d = 2 -> "2" [] d = 3 -> "3" [] d = 4 -> "4"
      [] d = 5 -> "5" [] d = 6 -> "6" [] d = 7 -> "7" [] d = 8 -> "8" [] d = 9 -> "9"

\* String(n) for a non-negative integer: its decimal digits
RECURSIVE IdString(_)
IdString(n) == IF n < 10 THEN <<Digit(n)>> ELSE IdString(n \div 10) \o <<Digit(n % 10)>>

\* s.replace(/ /g, '')
RECURSIVE StripSpaces(_)
StripSpaces(s) ==
    IF s = <<>> THEN <<>>
    ELSE IF Head(s) = " " THEN StripSpaces(Tail(s))
    ELSE <<Head(s)>> \o StripSpaces(Tail(s))

\* the last element of s.split("/")
RECURSIVE LastPart(_)
LastPart(s) ==
    IF s = <<>> THEN <<>>
    ELSE IF s[Len(s)] = "/" THEN <<>>
    ELSE LastPart(SubSeq(s, 1, Len(s) - 1)) \o <<s[Len(s)]>>

\* the folder a path lies in: everything before the last "/"
ParentPath(s) ==
    LET n == Len(s) - Len(LastPart(s)) IN
    IF n = 0 THEN <<>> ELSE SubSeq(s, 1, n - 1)

IsSep(c) == c = "/" \/ c = "\\"

RECURSIVE DropSeps(_)
DropSeps(s) == IF s # <<>> /\ IsSep(Head(s)) THEN DropSeps(Tail(s)) ELSE s

\* runs of "/" and "\" become one "/"
RECURSIVE CollapseSeps(_)
CollapseSeps(s) ==
    IF s = <<>> THEN <<>>
    ELSE IF IsSep(Head(s)) THEN <<"/">> \o CollapseSeps(DropSeps(Tail(s)))
    ELSE <<Head(s)>> \o CollapseSeps(Tail(s))

StripEnds(s) ==
    LET a == IF s # <<>> /\ Head(s) = "/" THEN Tail(s) ELSE s
    IN  IF a # <<>> /\ a[Len(a)] = "/" THEN SubSeq(a, 1, Len(a) - 1) ELSE a

\* obsidian's normalizePath
normalizePath(s) ==
    LET r == StripEnds(CollapseSeps(s)) IN IF r = <<>> THEN <<"/">> ELSE r

(***************************************************************************)
(* The vault.                                                              *)
(***************************************************************************)
Paths(fs) == {fs[i].path : i \in 1..Len(fs)}

\* vault.getAbstractFileByPath(path) != null
Exists(fs, dirs, path) == path \in Paths(fs) \/ path \in dirs

\* the content of the file at path, as a sequence of zero or one contents
ContentAt(fs, path) ==
    LET hit == SelectSeq(fs, LAMBDA f : f.path = path) IN
    IF hit = <<>> THEN <<>> ELSE <<hit[1].content>>

\* vault.create can write: nothing is at the path and the folder is there
CanCreate(fs, dirs, path) ==
    /\ ~Exists(fs, dirs, path)
    /\ (ParentPath(path) = <<>> \/ ParentPath(path) \in dirs)

\* path lies under the folder dir
IsUnder(path, dir) ==
    Len(path) > Len(dir) /\ SubSeq(path, 1, Len(dir) + 1) = dir \o <<"/">>

\* the effect of vault.delete(file, true): the file goes, and a folder goes with all
\* that it holds
vaultDelete(fs, path) == SelectSeq(fs, LAMBDA f : f.path # path /\ ~IsUnder(f.path, path))
vaultDeleteFolders(dirs, path) == {d \in dirs : d # path /\ ~IsUnder(d, path)}

(***************************************************************************)
(* Pure functions of the plugin.                                           *)
(***************************************************************************)
\* formatTaskFilename: `${type} - ${id}`
formatTaskFilename(type, id) == type \o <<" ", "-", " ">> \o IdString(id)

RECURSIVE FirstMatch(_, _, _)
FirstMatch(fs, i, sub) ==
    IF i > Len(fs) THEN 0
    ELSE IF Contains(fs[i].path, sub) THEN i
    ELSE FirstMatch(fs, i + 1, sub)

\* getFilenameByTaskId: the name, without ".md", of the first note whose path
\* contains the identifier; "" when there is none
getFilenameByTaskIdDelimited(fs, id) ==
    LET i == FirstMatch(fs, 1, <<" ">> \o IdString(id) \o <<".">>) IN
    IF i = 0 THEN <<>>
    ELSE LET filename == LastPart(fs[i].path) IN SubSeq(filename, 1, Len(filename) - 3)
getFilenameByTaskId(fs, id) ==
    LET i == FirstMatch(fs, 1, IdString(id)) IN
    IF i = 0 THEN <<>>
    ELSE LET filename == LastPart(fs[i].path) IN SubSeq(filename, 1, Len(filename) - 3)

\* TASK_TEMPLATE_MD.format(title, tag, link): the three substituted fields
TaskNoteContent(task) ==
    [kind |-> "task",
     title |-> task.title,
     tag |-> <<"#">> \o StripSpaces(task.type),
     link |-> <<"e","d","i","t","/">> \o IdString(task.id)]

\* createTaskNote: the vault.create request it issues
createTaskNote(path, task) ==
    [id |-> task.id,
     path |-> path \o <<"/">> \o formatTaskFilename(task.type, task.id) \o <<".","m","d">>,
     content |-> TaskNoteContent(task)]

\* filterTasksInColumn
filterTasksInColumnLoose(tasks, column) ==
    SelectSeq(tasks, LAMBDA task :
        task.state = column \/ (column = COLUMN_PENDING /\ task.state \notin Columns))
filterTasksInColumn(tasks, column) ==
    SelectSeq(tasks, LAMBDA task : task.state = column)

\* formatTaskLinks: one checklist line per task, `- [ ] [[link]] \n title`
formatTaskLinks(fs, tasks) ==
    [i \in 1..Len(tasks) |->
        [link |-> getFilenameByTaskId(fs, tasks[i].id), title |-> tasks[i].title]]

\* BOARD_TEMPLATE_MD.format(...): the five column bodies
BoardContent(fs, tasks) ==
    [kind |-> "board",
     pending |-> formatTaskLinks(fs, filterTasksInColumn(tasks, COLUMN_PENDING)),
     inProgress |-> formatTaskLinks(fs, filterTasksInColumn(tasks, COLUMN_IN_PROGRESS)),
     inMerge |-> formatTaskLinks(fs, filterTasksInColumn(tasks, COLUMN_IN_MERGE)),
     inVerification |-> formatTaskLinks(fs, filterTasksInColumn(tasks, COLUMN_IN_VERIFICATION)),
     closed |-> formatTaskLinks(fs, filterTasksInColumn(tasks, COLUMN_CLOSED))]

\* the path of the board note: path + `/${sprintName}-Board.md`
BoardPathIsFolder(path, sprintName) == path
BoardPath(path, sprintName) ==
    path \o <<"/">> \o sprintName \o <<"-","B","o","a","r","d",".","m","d">>

\* the tasks of the current sprint (line 103)
tasksInCurrentSprint(tasks, currentSprint) ==
    SelectSeq(tasks, LAMBDA task : task.iterPath = currentSprint.path)

\* the tasks for which line 108 finds no note
MissingNotes(fs, tasks) ==
    SelectSeq(tasks, LAMBDA task : getFilenameByTaskId(fs, task.id) = <<>>)

SeqToSet(s) == {s[i] : i \in 1..Len(s)}

(***************************************************************************)
(* The remote service: iterations and work items the model draws from.     *)
(***************************************************************************)
IterA == [name |-> <<"S","3">>, path |-> <<"P","\\","A">>]
IterB == [name |-> <<"S","4">>, path |-> <<"B">>]
Iterations == {IterA, IterB}

TypeBug == <<"B","u","g">>
TypeTask == <<"T","a","s","k">>
TypeUserStory == <<"U","s","e","r"," ","S","t","o","r","y">>
StateNew == <<"N","e","w">>

WorkItem(id, type, title, state, iterPath) ==
    [id |-> id, type |-> type, title |-> title, state |-> state, iterPath |-> iterPath]

Item12(state) == WorkItem(12, TypeBug, <<"x">>, state, IterA.path)
Item112(state) == WorkItem(112, TypeTask, <<"y">>, state, IterA.path)
Item3(state, iterPath) == WorkItem(3, TypeUserStory, <<"z">>, state, iterPath)

\* the snapshots of the remote service (distinct identifiers, as in a WIQL result)
Snapshots ==
    { [iteration |-> IterA, items |-> <<Item12(COLUMN_PENDING), Item112(COLUMN_IN_MERGE)>>],
      [iteration |-> IterA, items |-> <<Item12(COLUMN_IN_PROGRESS), Item3(StateNew, IterA.path)>>],
      [iteration |-> IterA, items |-> <<Item112(COLUMN_IN_VERIFICATION)>>],
      [iteration |-> IterA, items |-> <<Item12(COLUMN_PENDING)>>],
      [iteration |-> IterA, items |-> <<Item3(COLUMN_CLOSED, IterA.path)>>],
      [iteration |-> IterB, items |-> <<Item12(COLUMN_PENDING), Item3(COLUMN_CLOSED, IterB.path)>>] }

TargetFolders == {<<>>}

\* the vaults a run may start from: [files, folders]
FolderA == normalizePath(<<>> \o <<"/">> \o IterA.path)
ExistingNote(task) ==
    LET n == createTaskNote(FolderA, task) IN [path |-> n.path, content |-> n.content]
EmptyBoard ==
    [kind |-> "board", pending |-> <<>>, inProgress |-> <<>>, inMerge |-> <<>>,
     inVerification |-> <<>>, closed |-> <<>>]
InitialVaults ==
    { [files |-> <<>>, folders |-> {}],
      [files |-> <<ExistingNote(Item12(COLUMN_PENDING))>>,
       folders |-> {FolderA}],
      [files |-> <<ExistingNote(Item112(COLUMN_IN_MERGE))>>,
       folders |-> {FolderA}],
      [files |-> <<[path |-> BoardPath(FolderA, IterA.name), content |-> EmptyBoard]>>,
       folders |-> {FolderA}] }

(***************************************************************************)
(* The run of updateCurrentSprintBoard.                                    *)
(***************************************************************************)
NoSprint == [name |-> <<>>, path |-> <<>>]
NoRemote == [iteration |-> NoSprint, items |-> <<>>]

NewRun ==
    [remote |-> NoRemote,        \* the remote snapshot the run saw
     outcome |-> "none",         \* "running", "threw" (the async function rejected) or "success"
     tasksStatus |-> StatusOK,   \* tasksReponse.status
     log |-> <<>>,               \* console.log calls of logError: which response's json
     notices |-> <<>>,           \* Notice texts shown
     currentSprint |-> NoSprint,
     folderPath |-> <<>>,        \* normalizedFolderPath
     statusChecked |-> FALSE,    \* lines 86-91 have run
     readBodies |-> FALSE,       \* line 93, the read of the response bodies, was reached
     notesPhase |-> FALSE,       \* lines 100-111 have run
     folderCalled |-> FALSE,     \* createFolders called createFolder
     folderExisted |-> FALSE,    \* something was at the folder path when createFolders ran
     folderPending |-> FALSE,    \* createFolder was in flight when the notes were issued
     tasks |-> <<>>,             \* tasksInCurrentSprint
     filesAtCheck |-> <<>>,      \* the file index when line 108 ran
     issued |-> {},              \* identifiers createTaskNote was called for
     noteRejected |-> FALSE,     \* a createTaskNote promise rejected
     boardInvoked |-> FALSE,     \* createKanbanBoard was called
     pendingAtBoard |-> {},      \* note creations in flight when createKanbanBoard was called
     boardPath |-> <<>>,
     boardContent |-> EmptyBoard,
     deleteIssued |-> FALSE,     \* createKanbanBoard called vault.delete
     deletePendingAtWrite |-> FALSE, \* vault.delete was in flight when the board create settled
     boardWritten |-> FALSE]     \* the board create resolved

NoPrev == [outcome |-> "none", remote |-> NoRemote, board |-> <<>>]

Quiescent ==
    /\ pendingNotes = {}
    /\ pendingFolder = <<>>
    /\ pendingDelete = <<>>
    /\ pendingBoard = <<>>

Init ==
    /\ targetFolder \in TargetFolders
    /\ remote \in Snapshots
    /\ \E v \in InitialVaults : files = v.files /\ folders = v.folders
    /\ pc = "idle"
    /\ iterationResponse = [status |-> StatusOK, json |-> [value |-> <<>>]]
    /\ run = NewRun
    /\ pendingNotes = {}
    /\ pendingFolder = <<>>
    /\ pendingDelete = <<>>
    /\ pendingBoard = <<>>
    /\ prev = NoPrev
    /\ runs = 0

\* the remote service changes between runs
RemoteChange ==
    /\ pc = "idle" /\ Quiescent /\ runs >= 1 /\ runs < MaxRuns
    /\ \E s \in Snapshots : s # remote /\ remote' = s
    /\ UNCHANGED <<targetFolder, files, folders, pc, iterationResponse, run,
                   pendingNotes, pendingFolder, pendingDelete, pendingBoard, prev, runs>>

\* the ribbon icon or the command (lines 42-53) starts a run, after the last one settled
Trigger ==
    /\ pc = "idle" /\ Quiescent /\ runs < MaxRuns
    /\ prev' = [outcome |-> run.outcome, remote |-> run.remote,
                board |-> ContentAt(files, run.boardPath)]
    /\ run' = [NewRun EXCEPT !.remote = remote, !.outcome = "running"]
    /\ pc' = "reqIteration"
    /\ runs' = runs + 1
    /\ UNCHANGED <<targetFolder, remote, files, folders, iterationResponse,
                   pendingNotes, pendingFolder, pendingDelete, pendingBoard>>

Statuses == {200, 500}

\* line 83: the GET of the current iteration returns; a body of a failed call may lack `value`
IterationResponse ==
    /\ pc = "reqIteration"
    /\ \E st \in Statuses, hasValue \in BOOLEAN :
          /\ st = StatusOK => hasValue
          /\ iterationResponse' =
                [status |-> st,
                 json |-> [value |-> IF hasValue THEN <<remote.iteration>> ELSE <<>>]]
    /\ pc' = "reqTasks"
    /\ UNCHANGED <<targetFolder, remote, files, folders, run,
                   pendingNotes, pendingFolder, pendingDelete, pendingBoard, prev, runs>>

\* logError: console.log(error) and a Notice
logError(r, error) ==
    [r EXCEPT !.log = Append(@, error),
              !.notices = Append(@, ErrorNotice)]

\* lines 84-97: the POST of the query returns, the statuses are checked, the bodies are
\* read and the detail fetches are issued
TasksResponse ==
    /\ pc = "reqTasks"
    /\ \E st \in Statuses, hasWorkItems \in BOOLEAN :
          /\ st = StatusOK => hasWorkItems
          /\ LET r0 == [run EXCEPT !.tasksStatus = st, !.statusChecked = TRUE]
                 r1 == IF iterationResponse.status # StatusOK
                       THEN logError(r0, "iterationResponse.json") ELSE r0
                 r3 == IF st # StatusOK
                       THEN logError(r1, "iterationResponse.json") ELSE r1
                 \* neither check returns or throws: line 93 is reached
                 r2 == [r3 EXCEPT !.readBodies = TRUE]
             IN  IF iterationResponse.json.value = <<>>
                 THEN \* line 93: value[0] of a body without value throws
                      /\ run' = [r2 EXCEPT !.outcome = "threw"]
                      /\ pc' = "idle"
                 ELSE IF ~hasWorkItems
                 THEN \* line 97: workItems.map of a body without workItems throws
                      /\ run' = [r2 EXCEPT !.outcome = "threw",
                                    !.currentSprint = iterationResponse.json.value[1]]
                      /\ pc' = "idle"
                 ELSE /\ run' = [r2 EXCEPT
                            !.currentSprint = iterationResponse.json.value[1],
                            !.folderPath = normalizePath(targetFolder \o <<"/">>
                                              \o iterationResponse.json.value[1].path)]
                      /\ pc' = "fetchDetails"
    /\ UNCHANGED <<targetFolder, remote, files, folders, iterationResponse,
                   pendingNotes, pendingFolder, pendingDelete, pendingBoard, prev, runs>>

\* createFolders: createFolder is called when nothing is at the path; not awaited
createFolders(fs, dirs, path) == IF Exists(fs, dirs, path) THEN <<>> ELSE <<path>>

\* lines 97-111: the detail fetches settle; the folder is requested, the tasks of the
\* sprint are selected and a note creation is issued for each task without a note
DetailsSettle ==
    /\ pc = "fetchDetails"
    /\ \E ok \in BOOLEAN :
          IF ~ok
          THEN \* a rejected fetch rejects Promise.all (line 97)
               /\ run' = [run EXCEPT !.outcome = "threw"]
               /\ pc' = "idle"
               /\ UNCHANGED <<pendingFolder, pendingNotes>>
          ELSE LET tasks == tasksInCurrentSprint(remote.items, run.currentSprint)
                   missing == MissingNotes(files, tasks)
               IN  /\ pendingFolder' = createFolders(files, folders, run.folderPath)
                   /\ pendingNotes' = {createTaskNote(run.folderPath, missing[i]) :
                                          i \in 1..Len(missing)}
                   /\ run' = [run EXCEPT
                         !.tasks = tasks,
                         !.notesPhase = TRUE,
                         !.filesAtCheck = files,
                         !.folderCalled = (pendingFolder' # <<>>),
                         !.folderExisted = Exists(files, folders, run.folderPath),
                         !.folderPending = (pendingFolder' # <<>> /\ missing # <<>>),
                         !.issued = {missing[i].id : i \in 1..Len(missing)}]
                   /\ pc' = "awaitNotes"
    /\ UNCHANGED <<targetFolder, remote, files, folders, iterationResponse,
                   pendingDelete, pendingBoard, prev, runs>>

\* Promise.all (line 113) rejects as soon as one of its promises rejects
PromiseAllSettledOnly(rejected) == FALSE
PromiseAllRejects(rejected) == rejected

\* a vault.create of createTaskNote settles
NoteSettle ==
    /\ \E n \in pendingNotes :
          /\ pendingNotes' = pendingNotes \ {n}
          /\ IF CanCreate(files, folders, n.path)
             THEN /\ files' = Append(files, [path |-> n.path, content |-> n.content])
                  /\ UNCHANGED <<pc, run>>
             ELSE /\ files' = files
                  /\ IF pc = "awaitNotes" /\ PromiseAllRejects(TRUE)
                     THEN /\ pc' = "idle"
                          /\ run' = [run EXCEPT !.outcome = "threw", !.noteRejected = TRUE]
                     ELSE /\ pc' = pc
                          /\ run' = [run EXCEPT !.noteRejected = TRUE]
    /\ UNCHANGED <<targetFolder, remote, folders, iterationResponse,
                   pendingFolder, pendingDelete, pendingBoard, prev, runs>>

\* `await Promise.all(promisesToCreateNotes)` resumes when every promise has resolved
NotesResolvedNoAwait(pending) == TRUE
NotesResolved(pending) == pending = {}

\* lines 113-118: the wait ends, createKanbanBoard runs and the success Notice is shown
\* createKanbanBoard: delete (not awaited), render, create (not awaited)
NotesDone ==
    /\ pc = "awaitNotes"
    /\ NotesResolved(pendingNotes)
    /\ LET filepath == BoardPath(run.folderPath, run.currentSprint.name)
           content == BoardContent(files, run.tasks)
       IN  /\ pendingDelete' = IF Exists(files, folders, filepath) THEN <<filepath>> ELSE <<>>
           /\ pendingBoard' = <<[path |-> filepath, content |-> content]>>
           /\ run' = [run EXCEPT
                 !.boardInvoked = TRUE,
                 !.pendingAtBoard = {n.id : n \in pendingNotes},
                 !.boardPath = filepath,
                 !.boardContent = content,
                 !.deleteIssued = Exists(files, folders, filepath),
                 !.notices = Append(@, SuccessNotice),
                 !.outcome = "success"]
    /\ pc' = "idle"
    /\ UNCHANGED <<targetFolder, remote, files, folders, iterationResponse,
                   pendingNotes, pendingFolder, prev, runs>>

\* the createFolder of createFolders settles: the folder exists from here on
FolderSettle ==
    /\ pendingFolder # <<>>
    /\ folders' = folders \cup {pendingFolder[1]}
    /\ pendingFolder' = <<>>
    /\ UNCHANGED <<targetFolder, remote, files, pc, iterationResponse, run,
                   pendingNotes, pendingDelete, pendingBoard, prev, runs>>

\* the vault.delete of createKanbanBoard takes effect
BoardDeleteSettle ==
    /\ pendingDelete # <<>>
    /\ files' = vaultDelete(files, pendingDelete[1])
    /\ folders' = vaultDeleteFolders(folders, pendingDelete[1])
    /\ pendingDelete' = <<>>
    /\ UNCHANGED <<targetFolder, remote, pc, iterationResponse, run,
                   pendingNotes, pendingFolder, pendingBoard, prev, runs>>

\* the vault.create of createKanbanBoard settles; a failure is caught and logged (line 174)
BoardCreateSettle ==
    /\ pendingBoard # <<>>
    /\ IF CanCreate(files, folders, pendingBoard[1].path)
       THEN /\ files' = Append(files, pendingBoard[1])
            /\ run' = [run EXCEPT !.boardWritten = TRUE,
                                  !.deletePendingAtWrite = (pendingDelete # <<>>)]
       ELSE /\ files' = files
            /\ run' = [run EXCEPT !.deletePendingAtWrite = (pendingDelete # <<>>)]
    /\ pendingBoard' = <<>>
    /\ UNCHANGED <<targetFolder, remote, folders, pc, iterationResponse,
                   pendingNotes, pendingFolder, pendingDelete, prev, runs>>

Next ==
    \/ RemoteChange
    \/ Trigger
    \/ IterationResponse
    \/ TasksResponse
    \/ DetailsSettle
    \/ NoteSettle
    \/ NotesDone
    \/ FolderSettle
    \/ BoardDeleteSettle
    \/ BoardCreateSettle

Spec == Init /\ [][Next]_vars

(***************************************************************************)
(* Properties.                                                             *)
(***************************************************************************)
\* the run has ended and every promise it left in flight has settled
Settled == pc = "idle" /\ Quiescent

\* the work items of the run's snapshot that lie in its current iteration
InScope == SelectSeq(run.remote.items, LAMBDA t : t.iterPath = run.remote.iteration.path)

ColumnBodies(c) ==
    << <<COLUMN_PENDING, c.pending>>, <<COLUMN_IN_PROGRESS, c.inProgress>>,
       <<COLUMN_IN_MERGE, c.inMerge>>, <<COLUMN_IN_VERIFICATION, c.inVerification>>,
       <<COLUMN_CLOSED, c.closed>> >>

\* how many checklist lines of a column body carry the title
LinesOf(body, title) == Cardinality({i \in 1..Len(body) : body[i].title = title})

\* C1: two runs in succession on the same remote snapshot, both reaching their end:
\* the second run issues no task-note creation, and the board note after it equals the
\* board note after the first.
C1_Idempotent ==
    (Settled /\ run.outcome = "success" /\ prev.outcome = "success"
        /\ prev.remote = run.remote)
    => /\ run.issued = {}
       /\ ContentAt(files, run.boardPath) = prev.board

\* C2: when createKanbanBoard found a note at the board path, its deletion has taken
\* effect by the time the create of the new board note is performed.
C2_DeleteBeforeWrite ==
    (run.boardInvoked /\ run.deleteIssued /\ pendingBoard = <<>>)
    => ~run.deletePendingAtWrite

\* C3: after a run that showed the success notice (and whose vault operations have
\* settled), the board note of the iteration exists and holds the rendering of that run.
C3_BoardIsRendering ==
    (Settled /\ run.outcome = "success")
    => ContentAt(files, run.boardPath) = <<run.boardContent>>

OnlyNote(item) == Paths(run.filesAtCheck) = {ExistingNote(item).path}
InScopeIds == {InScope[i].id : i \in 1..Len(InScope)}

\* C5 as stated: with only the note of identifier 12 in the vault, no note creation is
\* issued for an in-scope item with identifier 112.
C5_Note12Hides112 ==
    (run.notesPhase /\ OnlyNote(Item12(COLUMN_PENDING)) /\ 112 \in InScopeIds)
    => 112 \notin run.issued

\* C5 amended: with only the note of identifier 112 in the vault, no note creation is
\* issued for an in-scope item with identifier 12 ("12" is a substring of the path of the
\* note of 112, not the other way round).
C5_Note112Hides12 ==
    (run.notesPhase /\ OnlyNote(Item112(COLUMN_IN_MERGE)) /\ 12 \in InScopeIds)
    => 12 \notin run.issued

C5_Witness ==
    /\ run.notesPhase /\ OnlyNote(Item112(COLUMN_IN_MERGE)) /\ 12 \in InScopeIds
    /\ 12 \notin run.issued

LogSet == {run.log[i] : i \in 1..Len(run.log)}
NoticeSet == {run.notices[i] : i \in 1..Len(run.notices)}

\* C6: for each of the two calls, a status other than 200 has its error logged and the
\* error notice shown, and the run goes on to read the response bodies.
C6_ErrorLoggedAndContinues ==
    run.statusChecked =>
       /\ iterationResponse.status # StatusOK =>
             "iterationResponse.json" \in LogSet /\ ErrorNotice \in NoticeSet
       /\ run.tasksStatus # StatusOK =>
             "tasksReponse.json" \in LogSet /\ ErrorNotice \in NoticeSet
       /\ run.readBodies

\* C7: if a task-note creation of the run rejects, createKanbanBoard is not invoked in
\* that run (no board deletion, no board creation) and the success notice is not shown.
C7_RejectionAborts ==
    run.noteRejected =>
       /\ ~run.boardInvoked
       /\ pendingDelete = <<>> /\ pendingBoard = <<>>
       /\ ~run.deleteIssued /\ ~run.boardWritten
       /\ SuccessNotice \notin NoticeSet
       /\ run.outcome = "threw"

C7_Witness == run.noteRejected /\ Settled /\ run.outcome = "threw"

FileSet(fs) == {fs[i] : i \in 1..Len(fs)}

\* C8: no step deletes or changes a task note; the only path at which a file is deleted
\* or replaced is the board path of the run.
C8_TaskNotesImmutable ==
    [][\A f \in FileSet(files) :
          (f.content.kind = "task" \/ f.path # run.boardPath) => f \in FileSet(files')]_vars

C8_Witness ==
    /\ run.deleteIssued /\ pendingDelete = <<>>
    /\ \E f \in FileSet(files) : f.content.kind = "task"

\* C9: createKanbanBoard starts only when no note creation of the run is in flight, and
\* every rendered line of an item whose note was created in the run links to a filename.
C9_BoardAfterNotes ==
    run.boardInvoked =>
       /\ run.pendingAtBoard = {}
       /\ \A i \in 1..Len(InScope) : \A k \in 1..5 :
             LET body == ColumnBodies(run.boardContent)[k][2] IN
             \A j \in 1..Len(body) :
                (body[j].title = InScope[i].title /\ InScope[i].id \in run.issued)
                => body[j].link # <<>>

C9_Witness ==
    /\ run.boardInvoked
    /\ \E i \in 1..Len(InScope) :
          InScope[i].id \in run.issued /\ InScope[i].state \in Columns

\* C10: no task-note creation is issued while the folder creation is in flight or has
\* failed, and createFolder is called only when nothing is at the folder path.
C10_FolderBeforeNotes ==
    /\ ~run.folderPending
    /\ run.folderCalled => ~run.folderExisted
====
